---- MODULE Spec2Model ----
(***************************************************************************)
(* The slot allocator of src/src/heap.rs: RangeSet (free-range tracker     *)
(* with an address index and a length index) and Heap (backing storage on  *)
(* top of one RangeSet).                                                   *)
(*                                                                         *)
(* A Pointer(u64) is modelled by its address, a natural number.  A         *)
(* BTreeMap is a function whose DOMAIN is its key set, a BTreeSet is a set.*)
(* Every operation is a pure operator from the object before the call to a *)
(* record holding the object after the call, the returned value and `ok`,  *)
(* which is FALSE when the call panics (a failed unwrap, assert!, index or *)
(* arithmetic check); the object in a panicking record is the object as    *)
(* the panic leaves it.  The crate's only runnable entry points are its    *)
(* tests (main is todo!()), so integer overflow is checked as in the test  *)
(* profile and is a panic.                                                 *)
(***************************************************************************)
EXTENDS Integers, Sequences, FiniteSets, TLC

\* ---------------------------------------------------------------- bounds
\* largest capacity an operation is allowed to leave behind
MaxCapacity == 7
\* largest size passed to alloc / mark_first / realloc / add_free_capacity
MaxSlots == 3
\* largest capacity of the alloc-only workload
MaxGrowth == 10
\* sizes of the first and second allocation of the in-place growth scenario
MaxFirst == 10
MaxSecond == 5

\* ------------------------------------------------------- BTreeMap helpers
EmptyMap == [k \in {} |-> 0]
MapRemove(m, k) == [x \in DOMAIN m \ {k} |-> m[x]]
MapInsert(m, k, v) == [x \in DOMAIN m \cup {k} |-> IF x = k THEN v ELSE m[x]]
Min(S) == CHOOSE x \in S : \A y \in S : x <= y
Max(S) == CHOOSE x \in S : \A y \in S : y <= x

\* vec![0; n]
Zeros(n) == [i \in 1..n |-> 0]

\* `LET v == value IN F(v)` with `value` written, and evaluated, once
Bind(value, F(_)) == F(value)

\* result of a RangeSet call
Ok(rs, ret) == [ok |-> TRUE, rs |-> rs, ret |-> ret]
Panic(rs) == [ok |-> FALSE, rs |-> rs, ret |-> 0]

\* ---------------------------------------------------------------- RangeSet
RangeSet_new == [capacity |-> 0, ranges |-> EmptyMap, free |-> EmptyMap]

\* remove_entry_if_empty with the removal of the empty bucket forgotten
remove_entry_never(free_map, size) == free_map

\* heap.rs:95-97  drop the bucket of `size` when its pointer set is empty
remove_entry_if_empty(free_map, size) ==
    IF free_map[size] = {} THEN MapRemove(free_map, size) ELSE free_map

\* heap.rs:93-99  remove `pointer` from the bucket of its size
mark_free(rs, pointer, size) ==
    IF size \notin DOMAIN rs.free
    THEN Panic(rs)
    ELSE IF pointer \notin rs.free[size]
    THEN Panic(rs)
    ELSE Ok([rs EXCEPT !.free = remove_entry_if_empty(
                           MapInsert(@, size, @[size] \ {pointer}), size)],
            size)

\* heap.rs:89-100
mark(rs, pointer) ==
    IF pointer \notin DOMAIN rs.ranges
    THEN Panic(rs)
    ELSE mark_free([rs EXCEPT !.ranges = MapRemove(@, pointer)], pointer,
                   rs.ranges[pointer])

\* an intermediate value of RangeSet::free: the set, and the extent released
Extent(ok, rs, pointer, slots) ==
    [ok |-> ok, rs |-> rs, pointer |-> pointer, slots |-> slots]

\* extend_left with the size of the absorbed range not added
extend_left_short(m, pointer_before, slots) ==
    Extent(m.ok, m.rs, pointer_before, slots)

\* heap.rs:112-114  the extent starts at the absorbed range
extend_left(m, pointer_before, slots) ==
    Extent(m.ok, m.rs, pointer_before, m.ret + slots)

\* merge_before with the range before never merged
merge_before_never(rs, pointer, slots) == Extent(TRUE, rs, pointer, slots)

\* heap.rs:106-116  absorb the free range that ends at `pointer`
merge_before(rs, pointer, slots) ==
    IF {p \in DOMAIN rs.ranges : p < pointer} = {}
    THEN Extent(TRUE, rs, pointer, slots)
    ELSE Bind(Max({p \in DOMAIN rs.ranges : p < pointer}),
              LAMBDA pointer_before :
                  IF pointer_before + rs.ranges[pointer_before] = pointer
                  THEN extend_left(mark(rs, pointer_before), pointer_before,
                                   slots)
                  ELSE Extent(TRUE, rs, pointer, slots))

\* extend_right with the length of the range after dropped
extend_right_short(m, pointer, slots) ==
    Extent(m.ok, m.rs, pointer, slots)

\* heap.rs:125-126  the extent grows by the absorbed range
extend_right(m, pointer, slots) ==
    Extent(m.ok, m.rs, pointer, slots + m.ret)

\* merge_after with the range after never merged
merge_after_never(rs, pointer, slots) == Extent(TRUE, rs, pointer, slots)

\* heap.rs:121-128  absorb the free range that starts at the extent's end
merge_after(rs, pointer, slots) ==
    IF {p \in DOMAIN rs.ranges : p >= pointer} = {}
    THEN Extent(TRUE, rs, pointer, slots)
    ELSE Bind(Min({p \in DOMAIN rs.ranges : p >= pointer}),
              LAMBDA pointer_after :
                  IF pointer + slots = pointer_after
                  THEN extend_right(mark(rs, pointer_after), pointer, slots)
                  ELSE Extent(TRUE, rs, pointer, slots))

\* is_tail_free with the tail case forgotten
is_tail_free_never(rs, pointer, slots) == FALSE

\* heap.rs:131  does the extent end at the capacity
is_tail_free(rs, pointer, slots) == pointer + slots = rs.capacity

\* heap.rs:138-149  insert the extent into both indices
insert_range(rs, pointer, slots) ==
    [ok |-> pointer \notin DOMAIN rs.ranges,
     rs |-> [rs EXCEPT !.free = MapInsert(@, slots,
                                   IF slots \in DOMAIN @
                                   THEN @[slots] \cup {pointer}
                                   ELSE {pointer}),
                       !.ranges = MapInsert(@, pointer, slots)],
     ret |-> 0]

\* heap.rs:130-149  shrink the capacity by a tail extent, track any other
release(e) ==
    IF ~e.ok THEN Panic(e.rs)
    ELSE IF is_tail_free(e.rs, e.pointer, e.slots)
    THEN Ok([e.rs EXCEPT !.capacity = @ - e.slots], e.slots)
    ELSE insert_range(e.rs, e.pointer, e.slots)

\* heap.rs:118-128  the second merge, of the extent the first one left
then_merge_after(e) ==
    IF ~e.ok THEN e ELSE merge_after(e.rs, e.pointer, e.slots)

\* heap.rs:103-150
RangeSet_free(rs, pointer, slots) ==
    release(then_merge_after(merge_before(rs, pointer, slots)))

\* heap.rs:37  self.capacity += slots
grow(f, slots) ==
    IF ~f.ok THEN Panic(f.rs)
    ELSE Ok([f.rs EXCEPT !.capacity = @ + slots], 0)

\* heap.rs:35-38
add_free_capacity(rs, slots) ==
    grow(RangeSet_free(rs, rs.capacity, slots), slots)

\* heap.rs:40-44
new_with_free_capacity(slots) == add_free_capacity(RangeSet_new, slots)

\* let_go with the end of the marked range kept
let_go_nothing(m, pointer, slots) ==
    IF ~m.ok THEN Panic(m.rs) ELSE Ok(m.rs, 0)

\* heap.rs:81-85  give the end of the marked range back
let_go(m, pointer, slots) ==
    IF ~m.ok THEN Panic(m.rs)
    ELSE IF m.ret = slots THEN Ok(m.rs, 0)
    ELSE IF ~(slots < m.ret) THEN Panic(m.rs)
    ELSE Bind(RangeSet_free(m.rs, pointer + slots, m.ret - slots),
              LAMBDA f : [f EXCEPT !.ret = 0])

\* heap.rs:78-86
mark_smaller(rs, pointer, slots) ==
    let_go(mark(rs, pointer), pointer, slots)

\* result of mark_first: the pointer and the size to grow the storage by
Marked(ok, rs, ret, extra) ==
    [ok |-> ok, rs |-> rs, ret |-> ret, extra |-> extra]

\* heap.rs:52  self.free.range(slots..).next(): the smallest length >= slots
smallest_fit(rs, slots) == Min({s \in DOMAIN rs.free : s >= slots})

\* earliest taking the last pointer of the set
latest(potential) == Max(potential)

\* heap.rs:53  *potential.iter().next().unwrap(): the lowest address of it
earliest(potential) == Min(potential)

\* heap.rs:52-56  fill the smallest earliest gap
fill_gap(rs, slots) ==
    IF rs.free[smallest_fit(rs, slots)] = {}
    THEN Marked(FALSE, rs, 0, 0)
    ELSE Bind(earliest(rs.free[smallest_fit(rs, slots)]),
              LAMBDA pointer :
                  Bind(mark_smaller(rs, pointer, slots),
                       LAMBDA m : Marked(m.ok, m.rs, pointer, 0)))

\* extend_tail growing the capacity by the whole request
extend_tail_whole(m, tail, slots) ==
    IF ~m.ok \/ slots < m.ret
    THEN Marked(FALSE, m.rs, 0, 0)
    ELSE Marked(TRUE, [m.rs EXCEPT !.capacity = @ + slots],
                tail, slots - m.ret)

\* heap.rs:64-67  take the whole tail range and extend the capacity
extend_tail(m, tail, slots) ==
    IF ~m.ok \/ slots < m.ret
    THEN Marked(FALSE, m.rs, 0, 0)
    ELSE Marked(TRUE, [m.rs EXCEPT !.capacity = @ + (slots - m.ret)],
                tail, slots - m.ret)

\* append with the capacity left as it is
append_no_growth(rs, slots) == Marked(TRUE, rs, rs.capacity, slots)

\* heap.rs:71-73  new space at the end
append(rs, slots) ==
    Marked(TRUE, [rs EXCEPT !.capacity = @ + slots], rs.capacity, slots)

\* heap.rs:50-74
mark_first(rs, slots) ==
    IF {s \in DOMAIN rs.free : s >= slots} # {}
    THEN fill_gap(rs, slots)
    ELSE IF DOMAIN rs.ranges = {}
    THEN append(rs, slots)
    ELSE Bind(Max(DOMAIN rs.ranges),
              LAMBDA tail :
                  IF tail + rs.ranges[tail] = rs.capacity
                  THEN extend_tail(mark(rs, tail), tail, slots)
                  ELSE append(rs, slots))

\* -------------------------------------------------------------------- Heap
\* result of a Heap call
Done(ok, hp, ret) == [ok |-> ok, h |-> hp, ret |-> ret]

\* heap.rs:161-166
Heap_new == [data |-> <<>>, free |-> RangeSet_new]

\* heap.rs:194  self.data.extend((0..extra_capacity).map(|_| 0))
extend(hp, m) ==
    IF ~m.ok THEN Done(FALSE, [hp EXCEPT !.free = m.rs], 0)
    ELSE Done(TRUE, [data |-> hp.data \o Zeros(m.extra), free |-> m.rs],
              m.ret)

\* heap.rs:190-196
alloc(hp, slots) == extend(hp, mark_first(hp.free, slots))

\* is_free with the length of the range found not compared
is_free_any(hp, pointer, slots) ==
    {p \in DOMAIN hp.free.ranges : p <= pointer} # {}

\* is_free asking for a range that ends beyond the region
is_free_strict(hp, pointer, slots) ==
    IF {p \in DOMAIN hp.free.ranges : p <= pointer} = {}
    THEN FALSE
    ELSE Bind(Max({p \in DOMAIN hp.free.ranges : p <= pointer}),
              LAMBDA p : p + hp.free.ranges[p] > pointer + slots)

\* heap.rs:201-219
is_free(hp, pointer, slots) ==
    IF {p \in DOMAIN hp.free.ranges : p <= pointer} = {}
    THEN FALSE
    ELSE Bind(Max({p \in DOMAIN hp.free.ranges : p <= pointer}),
              LAMBDA p : p + hp.free.ranges[p] >= pointer + slots)

\* truncate with the storage left as it is
truncate_never(hp, f) ==
    Done(f.ok, [data |-> hp.data, free |-> f.rs], 0)

\* heap.rs:269  self.data.truncate(self.data.len() - unneeded_capacity)
truncate(hp, f) ==
    IF ~f.ok \/ Len(hp.data) < f.ret
    THEN Done(FALSE, [hp EXCEPT !.free = f.rs], 0)
    ELSE Done(TRUE, [data |-> SubSeq(hp.data, 1, Len(hp.data) - f.ret),
                     free |-> f.rs], 0)

\* heap.rs:262-265  todo!("Copy on write") panics before anything is done
Heap_write(hp, pointer, item) == Done(FALSE, hp, 0)

\* heap.rs:267-270
Heap_free(hp, pointer, slots) ==
    truncate(hp, RangeSet_free(hp.free, pointer, slots))

\* heap.rs:236-238  the copy loop, from `slot` on; data[i] is data[i + 1] here
RECURSIVE copy_slots(_, _, _, _, _)
copy_slots(a, new_pointer, pointer, slot, old) ==
    IF ~a.ok \/ slot >= old THEN a
    ELSE IF pointer + slot >= Len(a.h.data)
            \/ new_pointer + slot >= Len(a.h.data)
    THEN Done(FALSE, a.h, 0)
    ELSE copy_slots([a EXCEPT !.h.data[new_pointer + slot + 1] =
                                  a.h.data[pointer + slot + 1]],
                    new_pointer, pointer, slot + 1, old)

\* free_old with the old allocation never freed
free_old_never(c, pointer, old) == c

\* heap.rs:240-241  free the old allocation, return the new pointer
free_old(c, pointer, old) ==
    IF ~c.ok THEN c
    ELSE [Heap_free(c.h, pointer, old) EXCEPT !.ret = c.ret]

\* heap.rs:235-241  move the allocation to a fresh, larger region
relocate(hp, pointer, old, new) ==
    Bind(alloc(hp, new),
         LAMBDA a : free_old(copy_slots(a, a.ret, pointer, 0, old),
                             pointer, old))

\* heap.rs:229-230  grow in place
grow_in_place(hp, m, pointer) ==
    Done(m.ok, [hp EXCEPT !.free = m.rs], pointer)

\* heap.rs:223-249
realloc(hp, pointer, old, new) ==
    IF new > old
    THEN IF is_free(hp, pointer + old, new - old)
         THEN grow_in_place(hp, mark_smaller(hp.free, pointer + old, new - old),
                            pointer)
         ELSE relocate(hp, pointer, old, new)
    ELSE IF old > new
    THEN [Heap_free(hp, pointer + new, old - new) EXCEPT !.ret = pointer]
    ELSE Done(TRUE, hp, pointer)

\* ------------------------------------------------------------ state machine
VARIABLES
    data,     \* Heap::data, the backing storage
    free,     \* Heap::free, the RangeSet (the whole object of a RangeSet client)
    live,     \* the regions <<pointer, size>> the client holds
    last,     \* the last call: its name, arguments, result and the object before
    status,   \* "ok", "panicked", or "misused" after a contract violation
    api,      \* the type the client drives: "Heap" or "RangeSet"
    step      \* position in the in-place growth scenario

vars == <<data, free, live, last, status, api, step>>

\* the Heap as the client sees it
h == [data |-> data, free |-> free]

Call(op, pointer, old, new, ret, extra) ==
    [op |-> op, pointer |-> pointer, old |-> old, new |-> new,
     ret |-> ret, extra |-> extra, pre |-> h]

Outcome(ok) == IF ok THEN "ok" ELSE "panicked"

InitAs(a) ==
    /\ data = Heap_new.data
    /\ free = Heap_new.free
    /\ live = {}
    /\ last = [op |-> "new", pointer |-> 0, old |-> 0, new |-> 0,
               ret |-> 0, extra |-> 0, pre |-> Heap_new]
    /\ status = "ok"
    /\ api = a
    /\ step = 0

\* heap.rs:284  let mut heap = Heap::new()
Init == InitAs("Heap")

\* ------------------------------------------------- calls on a Heap, any args
\* heap.rs:290-291  pointer = heap.alloc(size); the client records the region
Alloc(slots) ==
    LET r == alloc(h, slots)
    IN  /\ status = "ok" /\ api = "Heap"
        /\ data' = r.h.data
        /\ free' = r.h.free
        /\ live' = IF r.ok THEN live \cup {<<r.ret, slots>>} ELSE live
        /\ last' = Call("alloc", 0, 0, slots, r.ret,
                        Len(r.h.data) - Len(data))
        /\ status' = Outcome(r.ok)
        /\ api' = api

\* heap.rs:303-304  heap.free(pointer, size); the client forgets the region
Free(pointer, slots) ==
    LET r == Heap_free(h, pointer, slots)
    IN  /\ status = "ok" /\ api = "Heap"
        /\ <<pointer, slots>> \in live
        /\ data' = r.h.data
        /\ free' = r.h.free
        /\ live' = IF r.ok THEN live \ {<<pointer, slots>>} ELSE live
        /\ last' = Call("free", pointer, slots, 0, 0, 0)
        /\ status' = Outcome(r.ok)
        /\ api' = api

\* heap.rs:300-301  pointer = heap.realloc(pointer, old, new)
Realloc(pointer, old, new) ==
    LET r == realloc(h, pointer, old, new)
    IN  /\ status = "ok" /\ api = "Heap"
        /\ <<pointer, old>> \in live
        /\ data' = r.h.data
        /\ free' = r.h.free
        /\ live' = IF r.ok
                   THEN (live \ {<<pointer, old>>}) \cup {<<r.ret, new>>}
                   ELSE live
        /\ last' = Call("realloc", pointer, old, new, r.ret, 0)
        /\ status' = Outcome(r.ok)
        /\ api' = api

\* ------------------------------------------------ a client of Heap (valid use)
HeapAlloc ==
    \E slots \in 1..MaxSlots :
        /\ alloc(h, slots).h.free.capacity <= MaxCapacity
        /\ Alloc(slots)
        /\ UNCHANGED step

HeapFree ==
    \E r \in live :
        /\ Free(r[1], r[2])
        /\ UNCHANGED step

HeapRealloc ==
    \E r \in live, new \in 1..MaxSlots :
        /\ realloc(h, r[1], r[2], new).h.free.capacity <= MaxCapacity
        /\ Realloc(r[1], r[2], new)
        /\ UNCHANGED step

Next == HeapAlloc \/ HeapFree \/ HeapRealloc

Spec == Init /\ [][Next]_vars

\* -------------------------------------------- a client of RangeSet (valid use)
\* the RangeSet as its client sees it; it owns no storage
Tracked(rs) == [data |-> <<>>, free |-> rs]

RangeSetCall(op, pointer, old, new, r, extra, marked) ==
    /\ status = "ok" /\ api = "RangeSet"
    /\ free' = r.rs
    /\ live' = IF r.ok THEN (live \ {<<pointer, old>>}) \cup marked ELSE live
    /\ last' = Call(op, pointer, old, new, r.ret, extra)
    /\ status' = Outcome(r.ok)
    /\ UNCHANGED <<data, api, step>>

\* heap.rs:35  add_free_capacity(slots)
AddFreeCapacity ==
    \E slots \in 1..MaxSlots :
        /\ free.capacity + slots <= MaxCapacity
        /\ RangeSetCall("add_free_capacity", 0, 0, slots,
                        add_free_capacity(free, slots), 0, {})

\* heap.rs:50  mark_first(slots); the client holds the returned region
MarkFirst ==
    \E slots \in 1..MaxSlots :
        LET r == mark_first(free, slots)
        IN  /\ r.rs.capacity <= MaxCapacity
            /\ RangeSetCall("mark_first", 0, 0, slots, r, r.extra,
                            {<<r.ret, slots>>})

\* heap.rs:78  mark_smaller(pointer, slots) on the start of a free range
MarkSmaller ==
    \E pointer \in DOMAIN free.ranges :
        \E slots \in 1..free.ranges[pointer] :
            RangeSetCall("mark_smaller", 0, 0, slots,
                         mark_smaller(free, pointer, slots), 0,
                         {<<pointer, slots>>})

\* heap.rs:103  free(pointer, slots) of a region the client holds
RangeSetFree ==
    \E r \in live :
        RangeSetCall("free", r[1], r[2], 0,
                     RangeSet_free(free, r[1], r[2]), 0, {})

NextRangeSet == AddFreeCapacity \/ MarkFirst \/ MarkSmaller \/ RangeSetFree

\* heap.rs:26  RangeSet::new()
InitRangeSet == InitAs("RangeSet")

\* a RangeSet driven directly
SpecRangeSet == InitRangeSet /\ [][NextRangeSet]_vars

\* either client
InitAny == \E a \in {"Heap", "RangeSet"} : InitAs(a)

NextAny ==
    \/ HeapAlloc \/ HeapFree \/ HeapRealloc
    \/ AddFreeCapacity \/ MarkFirst \/ MarkSmaller \/ RangeSetFree

SpecAny == InitAny /\ [][NextAny]_vars

\* ------------------------------------------- a client that breaks the contract
\* heap.free(pointer, m) on a live allocation of another size
FreeMismatch ==
    \E r \in live, m \in 1..MaxSlots :
        LET f == Heap_free(h, r[1], m)
        IN  /\ status = "ok" /\ api = "Heap"
            /\ m # r[2]
            /\ data' = f.h.data
            /\ free' = f.h.free
            /\ last' = Call("free_mismatch", r[1], r[2], m, 0, 0)
            /\ status' = IF f.ok THEN "misused" ELSE "panicked"
            /\ UNCHANGED <<live, api, step>>

\* the region of the last call was released by it (a free, or a relocation)
Released ==
    \/ last.op = "free"
    \/ last.op = "realloc" /\ last.ret # last.pointer

\* heap.free(pointer, size) once more on the region released by the last call
FreeStale ==
    LET f == Heap_free(h, last.pointer, last.old)
    IN  /\ status = "ok" /\ api = "Heap"
        /\ Released
        /\ data' = f.h.data
        /\ free' = f.h.free
        /\ last' = Call("free_stale", last.pointer, last.old, 0, 0, 0)
        /\ status' = IF f.ok THEN "misused" ELSE "panicked"
        /\ UNCHANGED <<live, api, step>>

NextMisuse ==
    \/ HeapAlloc \/ HeapFree \/ HeapRealloc
    \/ FreeMismatch \/ FreeStale

SpecMisuse == Init /\ [][NextMisuse]_vars

\* ------------------------------------------------ in-place growth scenario
\* P := alloc(a)
ScenarioAllocFirst ==
    \E a \in 1..MaxFirst :
        /\ step = 0
        /\ Alloc(a)
        /\ step' = 1

\* Q := alloc(b)
ScenarioAllocSecond ==
    \E b \in 1..MaxSecond :
        /\ step = 1
        /\ Alloc(b)
        /\ step' = 2

\* free(Q, b)
ScenarioFreeSecond ==
    /\ step = 2
    /\ Free(last.ret, last.new)
    /\ step' = 3

\* realloc(P, a, a + b)
ScenarioGrowFirst ==
    \E r \in live :
        /\ step = 3
        /\ Realloc(r[1], r[2], r[2] + last.old)
        /\ step' = 4

NextScenario ==
    \/ ScenarioAllocFirst \/ ScenarioAllocSecond
    \/ ScenarioFreeSecond \/ ScenarioGrowFirst

SpecScenario == Init /\ [][NextScenario]_vars

\* ------------------------------------------------- a client that also writes
\* the slice the client writes: as long as the allocation, every slot 1
Item(slots) == [i \in 1..slots |-> 1]

\* heap.write(pointer, item) on a live allocation, item of its size
HeapWrite ==
    \E r \in live :
        LET w == Heap_write(h, r[1], Item(r[2]))
        IN  /\ status = "ok" /\ api = "Heap"
            /\ data' = w.h.data
            /\ free' = w.h.free
            /\ last' = Call("write", r[1], r[2], r[2], w.ret, 0)
            /\ status' = Outcome(w.ok)
            /\ UNCHANGED <<live, api, step>>

NextWrite == HeapAlloc \/ HeapFree \/ HeapRealloc \/ HeapWrite

SpecWrite == Init /\ [][NextWrite]_vars

\* ------------------------------------------------- an alloc-only workload
\* heap.rs:289-290  only heap.alloc(size)
GrowAlloc ==
    \E slots \in 1..MaxSlots :
        /\ free.capacity + slots <= MaxGrowth
        /\ Alloc(slots)
        /\ UNCHANGED step

SpecAllocOnly == Init /\ [][GrowAlloc]_vars

\* ------------------------------------------------------------------ claims
\* the slots of a region
Slots(region) == region[1] .. (region[1] + region[2] - 1)

\* the free ranges the by-address index tracks
FreeRanges(rs) == {<<a, rs.ranges[a]>> : a \in DOMAIN rs.ranges}

\* the regions of the address space, each with the side that holds it
Regions ==
    {<<"live", r>> : r \in live} \cup {<<"free", r>> : r \in FreeRanges(free)}

\* C1 (Coverage): after every operation of a valid alloc/free/realloc
\* sequence on a Heap, the live allocations and the tracked free ranges are
\* pairwise disjoint and their union is exactly [0, capacity).
C1_Coverage ==
    /\ \A x, y \in Regions : x # y => Slots(x[2]) \cap Slots(y[2]) = {}
    /\ UNION {Slots(x[2]) : x \in Regions} = 0 .. (free.capacity - 1)

\* a relocating realloc has run and left live and free regions interleaved
C1_Witness ==
    /\ last.op = "realloc" /\ last.ret # last.pointer
    /\ Cardinality(live) >= 2
    /\ DOMAIN free.ranges # {}

\* C2 (Mirror): after every completed operation of either client, address a
\* maps to length l in `ranges` iff a is in `free[l]`, and no length of
\* `free` maps to an empty set.
C2_Mirror ==
    /\ \A a \in DOMAIN free.ranges :
          /\ free.ranges[a] \in DOMAIN free.free
          /\ a \in free.free[free.ranges[a]]
    /\ \A l \in DOMAIN free.free :
          /\ free.free[l] # {}
          /\ \A a \in free.free[l] :
                a \in DOMAIN free.ranges /\ free.ranges[a] = l

\* a call has emptied one bucket while another still holds two ranges
C2_Witness ==
    /\ status = "ok"
    /\ \E l \in DOMAIN free.free : Cardinality(free.free[l]) >= 2
    /\ \E l \in DOMAIN last.pre.free.free : l \notin DOMAIN free.free

\* C3 (No adjacency): after every completed operation of either client, two
\* tracked free ranges (a1,l1), (a2,l2) with a1 < a2 have a1 + l1 < a2.
C3_NoAdjacency ==
    \A a1, a2 \in DOMAIN free.ranges :
        a1 < a2 => a1 + free.ranges[a1] < a2

\* a free has merged the released region with the free range after it, and
\* another free range lies one slot further on
C3_Witness ==
    /\ last.op = "free" /\ status = "ok"
    /\ last.pointer \in DOMAIN free.ranges
    /\ free.ranges[last.pointer] > last.old
    /\ \E a \in DOMAIN free.ranges :
          a = last.pointer + free.ranges[last.pointer] + 1

\* C4: after every completed Heap operation the length of `data` equals the
\* RangeSet capacity.
C4_StorageIsCapacity == Len(data) = free.capacity

\* a relocating realloc has changed the capacity
C4_Witness ==
    /\ last.op = "realloc" /\ last.ret # last.pointer
    /\ free.capacity # last.pre.free.capacity
    /\ Len(data) > 0

\* C5 (In-place growth scenario): on an empty Heap, after P := alloc(a),
\* Q := alloc(b), free(Q, b), the call realloc(P, a, a + b) returns P.
C5_GrowsInPlace ==
    step = 4 => status = "ok" /\ last.ret = last.pointer

\* C6 (Size-mismatch rejection): free(P, m) on a live allocation (P, n)
\* with m # n always ends in a fatal failure.
C6_SizeMismatchIsFatal ==
    last.op = "free_mismatch" => status = "panicked"

\* C7 (Double free): free(P, n) of a region that was already freed always
\* ends in a fatal failure.
C7_DoubleFreeIsFatal ==
    last.op = "free_stale" => status = "panicked"

\* C8 (Round trip): P := alloc(n) immediately followed by free(P, n) restores
\* the RangeSet (capacity and both indices) and the storage to what they were
\* before the alloc.
C8_RoundTrip ==
    last.op = "alloc" /\ status = "ok" =>
        Heap_free(h, last.ret, last.new) = Done(TRUE, last.pre, 0)

\* an alloc has split a free range while another free range exists
C8_Witness ==
    /\ last.op = "alloc" /\ status = "ok"
    /\ last.ret \in DOMAIN last.pre.free.ranges
    /\ last.pre.free.ranges[last.ret] > last.new
    /\ Cardinality(DOMAIN last.pre.free.ranges) >= 2

\* C9 (Tail shrink to empty): once every live allocation has been freed,
\* the capacity is 0, the storage is empty and both indices are empty.
C9_EmptyWhenNothingLive ==
    live = {} =>
        /\ free.capacity = 0
        /\ Len(data) = 0
        /\ DOMAIN free.ranges = {}
        /\ DOMAIN free.free = {}

\* the last live allocation was freed while free ranges were tracked
C9_Witness ==
    /\ live = {} /\ last.op = "free" /\ status = "ok"
    /\ DOMAIN last.pre.free.ranges # {}

\* the free ranges before the last call that could hold its request
Sufficient == {r \in FreeRanges(last.pre.free) : r[2] >= last.new}

\* the shortest of them
BestFits == {r \in Sufficient : \A q \in Sufficient : r[2] <= q[2]}

\* C10 (Best fit, lowest address on a tie): when a tracked free range has
\* length >= n, alloc(n) / mark_first(n) returns the lowest address among
\* the free ranges of the minimum length >= n, reports extra capacity 0 and
\* leaves the storage length unchanged.
C10_BestFitLowestAddress ==
    last.op \in {"alloc", "mark_first"} /\ Sufficient # {} =>
        /\ status = "ok"
        /\ \E r \in BestFits :
              /\ last.ret = r[1]
              /\ \A q \in BestFits : r[1] <= q[1]
        /\ last.extra = 0
        /\ Len(data) = Len(last.pre.data)

\* the call chose among two shortest ranges, past a longer one at a lower
\* address
C10_Witness ==
    /\ last.op \in {"alloc", "mark_first"} /\ status = "ok"
    /\ Cardinality(BestFits) >= 2
    /\ \E r \in Sufficient : r[1] < last.ret

\* the free ranges, before the last call, that touch the region it names
RangeBefore ==
    {r \in FreeRanges(last.pre.free) : r[1] + r[2] = last.pointer}
RangeAfter ==
    {r \in FreeRanges(last.pre.free) : r[1] = last.pointer + last.old}

\* the extent of that region joined with them
MergedStart ==
    IF RangeBefore = {} THEN last.pointer
    ELSE (CHOOSE r \in RangeBefore : TRUE)[1]
MergedEnd ==
    IF RangeAfter = {} THEN last.pointer + last.old
    ELSE LET r == CHOOSE q \in RangeAfter : TRUE IN r[1] + r[2]

\* C11 (Maximal coalescing): when free(P, n) releases a live region whose
\* merged extent does not end at capacity, exactly one free range contains
\* [P, P+n) afterwards; it is the union of [P, P+n) with the free range that
\* ended at P and the one that started at P+n; every other free range and
\* the capacity are unchanged.
C11_MaximalCoalescing ==
    last.op = "free" /\ MergedEnd # last.pre.free.capacity =>
        /\ status = "ok"
        /\ free.capacity = last.pre.free.capacity
        /\ FreeRanges(free) =
              (FreeRanges(last.pre.free) \ (RangeBefore \cup RangeAfter))
                  \cup {<<MergedStart, MergedEnd - MergedStart>>}
        /\ Cardinality({r \in FreeRanges(free) :
                           Slots(<<last.pointer, last.old>>) \subseteq Slots(r)})
              = 1

\* a free has merged with a range on each side while another range stayed
C11_Witness ==
    /\ last.op = "free" /\ status = "ok"
    /\ RangeBefore # {} /\ RangeAfter # {}
    /\ MergedEnd # last.pre.free.capacity
    /\ Cardinality(FreeRanges(free)) >= 2

\* C12 (Growth under alloc-only workloads): in a sequence of allocs only,
\* from an empty Heap, each alloc(n) returns the previous capacity and raises
\* capacity and storage length by exactly n, so capacity never decreases.
C12_AllocOnlyGrows ==
    last.op = "alloc" =>
        /\ status = "ok"
        /\ last.ret = last.pre.free.capacity
        /\ free.capacity = last.pre.free.capacity + last.new
        /\ Len(data) = Len(last.pre.data) + last.new
        /\ free.capacity >= last.pre.free.capacity

\* a third alloc has appended to a non-empty Heap
C12_Witness ==
    /\ last.op = "alloc" /\ status = "ok"
    /\ Cardinality(live) >= 3
    /\ last.ret > 0 /\ last.new > 1

\* C13 (No fatal failure under valid use): in a sequence of alloc(n >= 1),
\* realloc(P, old, new >= 1) and free(P, old) on live allocations with their
\* current sizes, no unwrap, assert, subtraction or index check fails.
C13_NoPanic == status = "ok"

\* a realloc has moved an allocation into a longer free range, copied it
\* and freed the old region next to another free range
C13_Witness ==
    /\ status = "ok"
    /\ last.op = "realloc" /\ last.ret # last.pointer
    /\ last.ret \in DOMAIN last.pre.free.ranges
    /\ last.pre.free.ranges[last.ret] > last.new
    /\ RangeBefore \cup RangeAfter # {}

\* C14: write(P, data) on a live allocation whose size is the length of data
\* completes normally, overwrites the allocation's slots in place, returns P
\* and leaves the RangeSet unchanged.
C14_WriteInPlace ==
    last.op = "write" =>
        /\ status = "ok"
        /\ last.ret = last.pointer
        /\ free = last.pre.free
        /\ Len(data) = Len(last.pre.data)
        /\ \A i \in 1..last.old : data[last.pointer + i] = Item(last.old)[i]

\* the slots realloc(P, old, new) adds to the allocation when it grows in place
Grown == Slots(<<last.pointer + last.old, last.new - last.old>>)

\* the free ranges, before the call, that cover all of the added slots
Covering == {r \in FreeRanges(last.pre.free) : Grown \subseteq Slots(r)}

\* what is left of a covering range behind the grown allocation
Remainder ==
    {<<last.pointer + last.new, r[1] + r[2] - (last.pointer + last.new)>> :
        r \in {q \in Covering : q[1] + q[2] > last.pointer + last.new}}

\* C15: for a live allocation (P, old) and new > old, realloc returns P if and
\* only if one tracked free range covers [P+old, P+new); then capacity and
\* storage are unchanged, exactly the slots [P+old, P+new) leave the free
\* ranges and the rest of the covering range stays free. An allocation that
\* ends at capacity is never grown in place.
C15_InPlaceGrowthRule ==
    last.op = "realloc" /\ last.new > last.old =>
        /\ status = "ok"
        /\ (last.ret = last.pointer) <=> (Covering # {})
        /\ last.ret = last.pointer =>
            /\ free.capacity = last.pre.free.capacity
            /\ data = last.pre.data
            /\ UNION {Slots(r) : r \in FreeRanges(free)}
                 = UNION {Slots(r) : r \in FreeRanges(last.pre.free)} \ Grown
            /\ FreeRanges(free)
                 = (FreeRanges(last.pre.free) \ Covering) \cup Remainder
            /\ <<last.pointer, last.new>> \in live
        /\ last.pointer + last.old = last.pre.free.capacity =>
               last.ret # last.pointer

C15_Witness ==
    /\ last.op = "realloc" /\ last.new > last.old
    /\ status = "ok"
    /\ last.ret = last.pointer
    /\ Remainder # {}
    /\ Cardinality(FreeRanges(free)) >= 2

\* the region realloc(P, old, new) was called on, and the region it returned
OldRegion == <<last.pointer, last.old>>
NewRegion == <<last.ret, last.new>>

\* a growing realloc that found no free range to grow into
Relocating == last.op = "realloc" /\ last.new > last.old /\ Covering = {}

\* the new region is apart from the old one and from every other live
\* allocation, and its first `old` slots hold what the old region held
MovedApart ==
    /\ status = "ok"
    /\ last.ret # last.pointer
    /\ Slots(NewRegion) \cap Slots(OldRegion) = {}
    /\ NewRegion \in live
    /\ \A r \in live \ {NewRegion} : Slots(NewRegion) \cap Slots(r) = {}
    /\ \A slot \in 0..(last.old - 1) :
           data[last.ret + slot + 1] = last.pre.data[last.pointer + slot + 1]

\* the old region lies inside one tracked free range
OldIsTrackedFree ==
    \E r \in FreeRanges(free) : Slots(OldRegion) \subseteq Slots(r)

\* the old region was the last of the address space and the new one was
\* placed in a gap below it
OldWasTailNewBelow ==
    /\ last.pointer + last.old = last.pre.free.capacity
    /\ last.ret < last.pointer

\* C16 as stated: a relocating realloc returns Q # P with [Q, Q+new) disjoint
\* from [P, P+old) and from every other live allocation, Q..Q+old holding the
\* values of P..P+old, and afterwards [P, P+old) is covered by a tracked free
\* range.
C16_OldRegionTrackedFree ==
    Relocating => MovedApart /\ OldIsTrackedFree

\* C16, amended: as stated, except that the old region is covered by a tracked
\* free range unless it was the last region of the address space and the new
\* region was placed below it; then the release is a tail shrink, the
\* capacity drops to P or lower and the old region lies outside the address
\* space, tracked by no free range.
C16_OldRegionReleased ==
    Relocating =>
        /\ MovedApart
        /\ IF OldWasTailNewBelow
           THEN /\ free.capacity <= last.pointer
                /\ Len(data) = free.capacity
                /\ \A r \in FreeRanges(free) :
                       Slots(r) \cap Slots(OldRegion) = {}
           ELSE /\ OldIsTrackedFree
                /\ free.capacity >= last.pre.free.capacity

C16_Witness ==
    /\ Relocating
    /\ status = "ok"
    /\ OldWasTailNewBelow
    /\ free.capacity < last.pointer
    /\ last.ret > 0

\* C17: for a live allocation (P, old) and 1 <= new < old, realloc returns P,
\* keeps [P, P+new) allocated and releases exactly [P+new, P+old): when P+old
\* was the capacity, capacity and storage length drop by old-new; otherwise
\* capacity is unchanged and the released slots are one tracked free range,
\* merged with the free range that started at P+old, if any. With new = old
\* the call returns P and changes nothing.
C17_ShrinkReleasesTail ==
    /\ last.op = "realloc" /\ last.new < last.old =>
        /\ status = "ok"
        /\ last.ret = last.pointer
        /\ <<last.pointer, last.new>> \in live
        /\ IF last.pointer + last.old = last.pre.free.capacity
           THEN /\ free.capacity = last.pre.free.capacity - (last.old - last.new)
                /\ Len(data) = Len(last.pre.data) - (last.old - last.new)
                /\ free.capacity = last.pointer + last.new
                /\ FreeRanges(free) = FreeRanges(last.pre.free)
           ELSE /\ free.capacity = last.pre.free.capacity
                /\ data = last.pre.data
                /\ FreeRanges(free)
                     = (FreeRanges(last.pre.free) \ RangeAfter)
                         \cup {<<last.pointer + last.new,
                                 MergedEnd - (last.pointer + last.new)>>}
    /\ last.op = "realloc" /\ last.new = last.old =>
        /\ status = "ok"
        /\ last.ret = last.pointer
        /\ <<last.pointer, last.old>> \in live
        /\ h = last.pre

C17_Witness ==
    /\ last.op = "realloc" /\ last.new < last.old
    /\ status = "ok"
    /\ RangeAfter # {}
    /\ free.ranges[last.pointer + last.new] > last.old - last.new
    /\ Cardinality(FreeRanges(free)) >= 2

\* the free range mark_first(n) chose: the one that started at the address it
\* returned
Chosen == {r \in Sufficient : r[1] = last.ret}

\* what a split leaves of the chosen range behind the marked region
Leftover ==
    {<<r[1] + last.new, r[2] - last.new>> : r \in {q \in Chosen : q[2] > last.new}}

\* C18: in a RangeSet driven by add_free_capacity, mark_first, mark_smaller
\* and free, when mark_first(n) finds a free range of length s >= n at A it
\* returns (A, 0) and leaves the capacity unchanged, and when s > n the
\* leftover [A+n, A+s) is tracked as a free range afterwards; a chosen range
\* that ends at capacity is no exception.
C18_SplitKeepsLeftover ==
    last.op = "mark_first" /\ Sufficient # {} =>
        /\ status = "ok"
        /\ Chosen # {}
        /\ last.extra = 0
        /\ free.capacity = last.pre.free.capacity
        /\ \A l \in Leftover :
               \E r \in FreeRanges(free) : Slots(l) \subseteq Slots(r)

\* the free range that ended at capacity before the call
TailRange ==
    {r \in FreeRanges(last.pre.free) : r[1] + r[2] = last.pre.free.capacity}

\* the by-size index holds exactly the ranges of the by-address index
IndexOf(rs) ==
    /\ \A size \in DOMAIN rs.free :
           /\ rs.free[size] # {}
           /\ rs.free[size] = {r[1] : r \in {q \in FreeRanges(rs) : q[2] = size}}
    /\ \A r \in FreeRanges(rs) : r[2] \in DOMAIN rs.free

\* C19: when no free range has length >= n, mark_first(n) on a RangeSet whose
\* highest free range (T, s) ends at capacity removes (T, s) from both
\* indices, returns (T, n - s) with n - s > 0 and grows the capacity by n - s,
\* so that [T, T+n) ends at the new capacity; when no free range ends at
\* capacity it returns (old capacity, n), grows the capacity by n and leaves
\* the free ranges as they were.
C19_TailExtension ==
    last.op = "mark_first" /\ Sufficient = {} =>
        /\ status = "ok"
        /\ \A t \in TailRange :
            /\ \A r \in FreeRanges(last.pre.free) : r[1] <= t[1]
            /\ last.ret = t[1]
            /\ last.extra = last.new - t[2]
            /\ last.extra > 0
            /\ free.capacity = last.pre.free.capacity + last.extra
            /\ last.ret + last.new = free.capacity
            /\ FreeRanges(free) = FreeRanges(last.pre.free) \ {t}
            /\ IndexOf(free)
        /\ TailRange = {} =>
            /\ last.ret = last.pre.free.capacity
            /\ last.extra = last.new
            /\ free.capacity = last.pre.free.capacity + last.new
            /\ free.ranges = last.pre.free.ranges
            /\ free.free = last.pre.free.free

C19_Witness ==
    /\ last.op = "mark_first" /\ Sufficient = {}
    /\ status = "ok"
    /\ TailRange # {}
    /\ last.ret > 0
    /\ FreeRanges(free) # {}

\* the end address of the highest live allocation, 0 when nothing is live
LiveEnd == Max({0} \cup {r[1] + r[2] : r \in live})

\* C20: in every state reached through alloc, free and realloc on a Heap, no
\* tracked free range ends at capacity, and capacity is the end address of
\* the highest live allocation (0 when nothing is live); so mark_first never
\* takes its tail-extension branch: every alloc that finds no sufficient
\* free range returns the old capacity and grows by the whole request.
C20_MinimalAddressSpace ==
    /\ \A r \in FreeRanges(free) : r[1] + r[2] < free.capacity
    /\ free.capacity = LiveEnd
    /\ last.op = "alloc" /\ Sufficient = {} =>
           /\ last.ret = last.pre.free.capacity
           /\ free.capacity = last.pre.free.capacity + last.new
    /\ last.op = "realloc" /\ last.ret # last.pointer /\ Sufficient = {} =>
           last.ret = last.pre.free.capacity

\* a free at the tail, next to a free range, gave back more than its own slots
C20_Witness ==
    /\ last.op = "free" /\ status = "ok"
    /\ RangeBefore # {}
    /\ free.capacity < last.pointer
    /\ free.capacity > 0
    /\ FreeRanges(free) # {}

====
